---- MODULE Spec2Model ----
(***************************************************************************)
(* The engine supervisor of host_engine/server.py (MLXEngineManager) and   *)
(* the asyncio tasks that drive it.                                        *)
(*                                                                         *)
(* The program runs on one asyncio event loop: a coroutine runs without    *)
(* interruption from one await that suspends to the next.  Every action    *)
(* below is one such uninterrupted segment of one task.  The awaits that   *)
(* suspend are: the health probe (server.py:123), asyncio.sleep(1)         *)
(* (:127), asyncio.sleep(backoff) (:143), asyncio.sleep(2) (:186) and      *)
(* asyncio.sleep(10) (:206).  stop() contains no await: its               *)
(* process.wait (:165, :172) is a blocking call, during which the event    *)
(* loop runs no other task.  stop is modelled in two segments, before and  *)
(* after the wait, and nothing of the program runs in between.             *)
(*                                                                         *)
(* Supervisor state is passed through the code segments as one record st:  *)
(* the fields of the MLXEngineManager object, the operating-system         *)
(* processes it has spawned, and tk, the record of the task that runs the  *)
(* segment.                                                                *)
(***************************************************************************)
EXTENDS Integers, Sequences, FiniteSets, TLC

None == "None"

Models == {"model-a", "model-b"}

\* config.active_model, the model used when start() gets no model
active_model == "model-a"

\* self._max_restart_attempts
max_restart_attempts == 3

\* Bound of the model: the iterations of start's startup loop.  The source
\* loops for _ in range(30) (server.py:116); the loop is modelled with
\* fewer iterations, each of them exactly as the source runs it.
MaxProbes == 3

\* Bound of the model: how many unreferenced engines may be alive at once.
MaxOrphans == 1

\* The request handlers that may run concurrently with the background task.
Callers == {"c1"}

\* "bg" is the task created by lifespan: start_mlx_background, and after it
\* the start_monitoring task it creates.
Tasks == {"bg"} \cup Callers

VARIABLES
    process,            \* self.process: NoProcess or the Popen of an engine; its
                        \* field signal is the last signal stop() sent to it; its
                        \* field confirmed is history: a health probe has
                        \* succeeded while this process was referenced and alive
    current_model,      \* self.current_model
    start_time,         \* self.start_time (0 stands for None)
    restart_attempts,   \* self._restart_attempts
    monitoring,         \* self._monitoring
    orphans,            \* spawned engines that are alive and no longer referenced
    task,               \* per task: operation, position, locals, last outcome
    exits,              \* history: unexpected exits observed since the counter was last reset
    lastBackoff,        \* history: backoff of the previous recovery since that reset
    respawns,           \* history, kept by SpecHist only: respawns of each task's current call
    reply,              \* the last answer given to a read-only or proxied request
    dismissed,          \* history: the monitoring loops that sleep since before the
                        \* flag was last cleared
    sent                \* the last call the backend made to MLXLMClient.chat_completion

vars == <<process, current_model, start_time, restart_attempts, monitoring,
          orphans, task, exits, lastBackoff, respawns, reply, sent,
          dismissed>>

NoProcess == [alive |-> FALSE, model |-> None, born |-> 0, confirmed |-> FALSE,
              signal |-> "none"]

\* The field crashed is history: during a backoff sleep, the model of the
\* process whose exit began the recovery.
IdleTask == [op |-> "none", pc |-> "idle", i |-> 0, arg |-> None,
             backoff |-> 0, res |-> "none", crashed |-> None]

\* The supervisor state as seen by task t.
St(t) == [process |-> process, current_model |-> current_model,
          start_time |-> start_time, restart_attempts |-> restart_attempts,
          monitoring |-> monitoring, orphans |-> orphans,
          exits |-> exits, lastBackoff |-> lastBackoff, tk |-> task[t]]

\* self.process is not None and self.process.poll() is None
Running(st) == st.process # NoProcess /\ st.process.alive

\* time.time(): instants are only ever compared with the recorded start_time,
\* and the clock has moved on since that was recorded.
Now(st) == IF st.start_time = 1 THEN 2 ELSE 1

\* The boolean a start/stop/swap outcome stands for.
ResultOf(res) == res \in {"already", "healthy", "stopped"}

(***************************************************************************)
(* What happens when the outermost coroutine of a task returns.  start and *)
(* _handle_crash call each other in tail position (return await ...), so   *)
(* the innermost result is the result of the operation the task runs.      *)
(***************************************************************************)
Return(st, code) ==
    LET done == [st.tk EXCEPT !.i = 0, !.arg = None, !.backoff = 0, !.res = code,
                              !.crashed = None]
    IN  CASE st.tk.op = "lifespan" ->
                \* start_mlx_background: on success create_task(start_monitoring())
                \* (a new task, created and not yet run); otherwise the task ends
                IF ResultOf(code)
                    THEN [st EXCEPT !.tk = [IdleTask EXCEPT !.op = "monitor", !.pc = "mon_new"]]
                    ELSE [st EXCEPT !.tk = [done EXCEPT !.pc = "done"]]
          [] st.tk.op = "monitor" ->
                \* await self._handle_crash() returned inside the monitoring loop;
                \* an exception ends the task
                IF code # "error" /\ st.monitoring
                    THEN [st EXCEPT !.tk = [done EXCEPT !.pc = "mon_sleep"]]
                    ELSE [st EXCEPT !.tk = [done EXCEPT !.pc = "done"]]
          [] OTHER ->
                [st EXCEPT !.tk = [done EXCEPT !.pc = "idle"]]

\* _handle_crash giving up when the counter reaches the budget (>= for >)
_handle_crash_early(st) ==
    LET n == st.restart_attempts + 1
    IN  IF n >= max_restart_attempts
            THEN Return([st EXCEPT !.restart_attempts = 0, !.exits = n,
                                   !.lastBackoff = 0], "exhausted")
            ELSE [st EXCEPT !.restart_attempts = n, !.exits = n,
                            !.lastBackoff = 2 ^ n,
                            !.tk.pc = "backoff", !.tk.backoff = 2 ^ n]

\* _handle_crash with a backoff that grows linearly (2 * n for 2 ** n)
_handle_crash_linear(st) ==
    LET n == st.restart_attempts + 1
    IN  IF n > max_restart_attempts
            THEN Return([st EXCEPT !.restart_attempts = 0, !.exits = n,
                                   !.lastBackoff = 0], "exhausted")
            ELSE [st EXCEPT !.restart_attempts = n, !.exits = n,
                            !.lastBackoff = 2 * n,
                            !.tk.pc = "backoff", !.tk.backoff = 2 * n]

\* _handle_crash that gives up without resetting the counter
_handle_crash_keeping(st) ==
    LET n == st.restart_attempts + 1
    IN  IF n > max_restart_attempts
            THEN Return([st EXCEPT !.restart_attempts = n, !.exits = n,
                                   !.lastBackoff = 0], "exhausted")
            ELSE [st EXCEPT !.restart_attempts = n, !.exits = n,
                            !.lastBackoff = 2 ^ n,
                            !.tk.pc = "backoff", !.tk.backoff = 2 ^ n]

\* _handle_crash up to its await asyncio.sleep(backoff)
_handle_crash(st) ==
    LET n == st.restart_attempts + 1
    IN  IF n > max_restart_attempts
            THEN Return([st EXCEPT !.restart_attempts = 0, !.exits = n,
                                   !.lastBackoff = 0], "exhausted")
            ELSE [st EXCEPT !.restart_attempts = n, !.exits = n,
                            !.lastBackoff = 2 ^ n,
                            !.tk.pc = "backoff", !.tk.backoff = 2 ^ n]

\* a loop head that probes without looking at the process first
startup_iteration_unchecked(st) ==
    IF st.tk.i >= MaxProbes
        THEN Return(st, "timeout")
    ELSE IF st.process = NoProcess
        THEN Return(st, "error")
    ELSE [st EXCEPT !.tk.pc = "probe"]

\* One pass through the head of start's startup loop, iteration st.tk.i,
\* up to the await of the health probe.
startup_iteration(st) ==
    IF st.tk.i >= MaxProbes
        THEN Return(st, "timeout")
    ELSE IF st.process = NoProcess
        THEN Return(st, "error")        \* None.poll(): AttributeError
    ELSE IF ~st.process.alive
        THEN _handle_crash([st EXCEPT !.process = NoProcess,
                                      !.tk.crashed = st.process.model])
    ELSE [st EXCEPT !.tk.pc = "probe"]

\* start without its guard "a process is referenced and has not exited"
start_unguarded(st, model) ==
    LET m == IF model = None THEN active_model ELSE model
        t == Now(st)
    IN  startup_iteration(
            [st EXCEPT !.process = [alive |-> TRUE, model |-> m, born |-> t,
                                   confirmed |-> FALSE, signal |-> "none"],
                       !.orphans = st.orphans + (IF Running(st) THEN 1 ELSE 0),
                       !.current_model = m,
                       !.start_time = t,
                       !.tk.i = 0])

\* start(model), from its first line to its first await
start(st, model) ==
    IF Running(st)
        THEN Return(st, "already")
        ELSE LET m == IF model = None THEN active_model ELSE model
                 t == Now(st)
             IN  startup_iteration(
                    [st EXCEPT !.process = [alive |-> TRUE, model |-> m, born |-> t,
                                   confirmed |-> FALSE, signal |-> "none"],
                               !.current_model = m,
                               !.start_time = t,
                               !.tk.i = 0])

\* What the GET {mlx_url}/v1/models of the health probe comes to: a response
\* with its status code, or an exception of the client (the engine does not
\* listen yet, the 5-second timeout of the client passes).
ProbeAnswers ==
    [kind : {"response"}, status_code : {200, 204, 503}]
        \cup [kind : {"ConnectError", "ReadTimeout"}, status_code : {0}]

\* a probe that takes any response for a healthy engine
_is_healthy_any_response(answer) == answer.kind = "response"

\* _is_healthy(): True if the response has status 200; every exception is
\* caught and gives False
_is_healthy(answer) ==
    IF answer.kind = "response"
        THEN answer.status_code = 200
        ELSE FALSE

\* start, resumed when the health probe has answered
probe_answered(st, healthy) ==
    IF healthy
        THEN Return([st EXCEPT !.restart_attempts = 0, !.exits = 0,
                               !.lastBackoff = 0,
                               !.process.confirmed = Running(st)], "healthy")
        ELSE [st EXCEPT !.tk.pc = "sleep"]

\* start, resumed after asyncio.sleep(1)
sleep_over(st) == startup_iteration([st EXCEPT !.tk.i = st.tk.i + 1])

\* _handle_crash, resumed after asyncio.sleep(backoff)
backoff_over(st) ==
    start([st EXCEPT !.process = NoProcess,
                     !.orphans = st.orphans + (IF Running(st) THEN 1 ELSE 0),
                     !.tk.backoff = 0, !.tk.crashed = None],
          st.current_model)

\* stop that also clears the restart counter
stop_resetting(st) ==
    IF st.process = NoProcess
        THEN [st EXCEPT !.monitoring = FALSE]
        ELSE [st EXCEPT !.monitoring = FALSE,
                        !.process = NoProcess,
                        !.current_model = None,
                        !.start_time = 0,
                        !.restart_attempts = 0]

\* stop that leaves the model and the start time of the stopped engine in place
stop_keeping_model(st) ==
    IF st.process = NoProcess
        THEN [st EXCEPT !.monitoring = FALSE]
        ELSE [st EXCEPT !.monitoring = FALSE,
                        !.process = NoProcess]

\* stop(), whole: signal the process group, wait, force-kill on timeout, clear.
\* Resumed after the wait, it is the part that clears.
stop(st) ==
    IF st.process = NoProcess
        THEN [st EXCEPT !.monitoring = FALSE]
        ELSE [st EXCEPT !.monitoring = FALSE,
                        !.process = NoProcess,
                        !.current_model = None,
                        !.start_time = 0]

\* stop() has returned True to the task: a request of stop is over, swap_model
\* goes on to its await asyncio.sleep(2)
stop_return(st) ==
    IF st.tk.op = "swap"
        THEN [st EXCEPT !.tk.pc = "drain"]
        ELSE Return(st, "stopped")

\* a stop that sends SIGKILL at once
stop_signal_kill_first(st) ==
    [st EXCEPT !.monitoring = FALSE, !.process.signal = "KILL",
               !.process.alive = FALSE, !.tk.pc = "wait"]

\* stop() with a process referenced, up to self.process.wait(timeout=10): the
\* flag is cleared and SIGTERM is sent to the process group
stop_signal(st) ==
    [st EXCEPT !.monitoring = FALSE, !.process.signal = "TERM", !.tk.pc = "wait"]

\* stop() as a task calls it: over at once when no process is referenced
stop_call(st) ==
    IF st.process = NoProcess
        THEN stop_return(stop(st))
        ELSE stop_signal(st)

\* stop(), resumed when process.wait(timeout=10) is over: the process has
\* exited within the 10 seconds and stop clears, or TimeoutExpired is raised,
\* SIGKILL is sent to the group, which ends the process, and stop waits again
wait_over(st) ==
    IF st.process.alive
        THEN [st EXCEPT !.process.signal = "KILL", !.process.alive = FALSE,
                        !.tk.pc = "kill_wait"]
        ELSE stop_return(stop(st))

\* stop(), resumed when the process.wait() that follows SIGKILL has returned
kill_wait_over(st) == stop_return(stop(st))

\* swap_model(new_model) up to its first wait
swap_model(st, new_model) == stop_call([st EXCEPT !.tk.arg = new_model])

\* swap_model, resumed after asyncio.sleep(2); new_model (tk.arg) is a local
\* of swap_model and lives until swap_model returns
drain_over(st) == start(st, st.tk.arg)

\* start_monitoring from its first line to its first await asyncio.sleep(10)
start_monitoring(st) ==
    IF st.monitoring
        THEN [st EXCEPT !.tk.pc = "done"]
        ELSE [st EXCEPT !.monitoring = TRUE, !.tk.pc = "mon_sleep"]

\* a monitoring loop that drops a dead process without recovering
monitor_wake_blind(st) ==
    IF ~st.monitoring
        THEN [st EXCEPT !.tk.pc = "done"]
    ELSE IF st.process # NoProcess /\ ~st.process.alive
        THEN [st EXCEPT !.process = NoProcess]
    ELSE st

\* a monitoring loop that does not look at the flag when it wakes up
monitor_wake_unflagged(st) ==
    IF st.process # NoProcess /\ ~st.process.alive
        THEN _handle_crash([st EXCEPT !.process = NoProcess,
                                      !.tk.crashed = st.process.model])
    ELSE IF ~st.monitoring
        THEN [st EXCEPT !.tk.pc = "done"]
    ELSE st

\* the monitoring loop, resumed after asyncio.sleep(10)
monitor_wake(st) ==
    IF ~st.monitoring
        THEN [st EXCEPT !.tk.pc = "done"]
    ELSE IF st.process # NoProcess /\ ~st.process.alive
        THEN _handle_crash([st EXCEPT !.process = NoProcess,
                                      !.tk.crashed = st.process.model])
    ELSE st

\* get_status that takes a referenced process for a running one (no poll())
get_status_referenced(st) ==
    [status |-> IF st.process # NoProcess THEN "running" ELSE "stopped",
     mlx_server_running |-> st.process # NoProcess,
     current_model |-> st.current_model,
     started |-> st.start_time,
     restart_attempts |-> st.restart_attempts]

\* get_status(): the snapshot is a function of the supervisor state
get_status(st) ==
    [status |-> IF Running(st) THEN "running" ELSE "stopped",
     mlx_server_running |-> Running(st),
     current_model |-> st.current_model,
     started |-> st.start_time,
     restart_attempts |-> st.restart_attempts]

\* GET /ready: 200 if the snapshot says the engine runs, 503 otherwise
readiness_check(st) ==
    IF get_status(st).mlx_server_running
        THEN [code |-> 200, status |-> "ready"]
        ELSE [code |-> 503, status |-> "MLX server not ready"]

\* GET /health: always 200, the body tells "healthy" from "starting"
health_check(st) ==
    [code |-> 200,
     status |-> IF get_status(st).mlx_server_running THEN "healthy" ELSE "starting"]

\* The status codes the engine may answer a proxied call with.
UpstreamCodes == {200, 503}

\* The bodies the engine may answer with: compact JSON, the same JSON objects
\* written with spaces, and a body that is not JSON.
UpstreamBodies == {"{\"data\":[]}", "{ \"data\": [] }",
                   "{\"error\":\"overloaded\"}", "{ \"error\": \"overloaded\" }",
                   "Service Unavailable"}

\* What the engine does with a proxied call: it answers, or the call fails in
\* transit (connection refused, timeout) and httpx raises.
TransitFailure == [code |-> 0, body |-> "raise"]
Upstream == [code : UpstreamCodes, body : UpstreamBodies] \cup {TransitFailure}

\* json.loads: the value a text denotes; "raise" is json.JSONDecodeError
json_loads(text) ==
    CASE text \in {"{\"data\":[]}", "{ \"data\": [] }"} -> <<"data", "[]">>
      [] text \in {"{\"error\":\"overloaded\"}", "{ \"error\": \"overloaded\" }"}
            -> <<"error", "overloaded">>
      [] OTHER -> <<"raise">>

\* JSONResponse(content=value): status 200 unless given, the value rendered
\* compactly (separators "," and ":")
JSONResponse(value) ==
    [code |-> 200,
     body |-> IF value[1] = "data" THEN "{\"data\":[]}"
              ELSE "{\"" \o value[1] \o "\":\"" \o value[2] \o "\"}"]

\* An exception that leaves a handler: the framework answers 500.
InternalServerError == [code |-> 500, body |-> "Internal Server Error"]

\* proxy_request(method, path, body, stream=False): yields response.content,
\* whatever the status code of the response; raises when the call fails
proxy_request(up) == IF up = TransitFailure THEN "raise" ELSE up.body

\* GET /v1/models
list_models(up) ==
    LET response == proxy_request(up)
        value    == json_loads(response)
    IN  IF response = "raise" \/ value = <<"raise">>
            THEN InternalServerError
            ELSE JSONResponse(value)

\* POST /v1/chat/completions with stream = false
chat_completions(up) ==
    LET response == proxy_request(up)
        value    == json_loads(response)
    IN  IF response = "raise" \/ value = <<"raise">>
            THEN InternalServerError
            ELSE JSONResponse(value)

\* The engine answers a health probe only if one of the spawned engines lives.
CanAnswer == Running(St("bg")) \/ orphans > 0

\* No status snapshot in a reply.
NoSnap == [status |-> None, mlx_server_running |-> FALSE, current_model |-> None,
           started |-> 0, restart_attempts |-> 0]

NoReply == [endpoint |-> None, code |-> 0, body |-> None, snap |-> NoSnap]

(***************************************************************************)
(* The backend application src.main.app and its route                      *)
(* POST /api/v1/chat/completions.  A request body is a JSON object; a      *)
(* field that may be absent is a sequence, empty when absent.  A message   *)
(* is given by its role, a temperature in tenths.                          *)
(***************************************************************************)
Roles == {"system", "user", "assistant"}

RequestMessages == {<<>>, <<"user">>, <<"invalid">>, <<"system", "user">>}
RequestTemperatures == {<<>>, <<-1>>, <<0>>, <<7>>, <<20>>, <<21>>}
RequestMaxTokens == {<<>>, <<0>>, <<1>>, <<100>>}

ChatRequests == [messages : RequestMessages, temperature : RequestTemperatures,
                 max_tokens : RequestMaxTokens]

\* What mlx_client.chat_completion does: it returns the engine's response or
\* raises (httpx error, HTTP error status).
ClientOutcomes == {[kind |-> "ok", text |-> "{\"id\":\"test-123\",\"choices\":[\"Hello!\"]}"],
                   [kind |-> "ok", text |-> "{\"id\":\"test-456\",\"choices\":[]}"],
                   [kind |-> "raise", text |-> "MLX server unavailable"]}

\* The payload of no call.
NoPayload == [max_tokens |-> 0, temperature |-> 0]

NoCall == [called |-> FALSE, messages |-> <<>>, temperature |-> <<>>,
           max_tokens |-> <<>>, payload |-> NoPayload]

\* settings.temperature (in tenths) and settings.max_tokens, the defaults of
\* the configuration
settings_temperature == 7
settings_max_tokens == 32768

\* Python's "value or default" for an optional number: the default stands in
\* for None and for every falsy value, 0 and 0.0 included
Or(value, default) ==
    IF value = <<>> \/ value[1] = 0 THEN default ELSE value[1]

\* MLXLMClient.chat_completion(messages, max_tokens=, temperature=): the
\* call with its arguments and the payload it posts to the engine
chat_completion(messages, max_tokens, temperature) ==
    [called |-> TRUE, messages |-> messages, temperature |-> temperature,
     max_tokens |-> max_tokens,
     payload |-> [max_tokens |-> Or(max_tokens, settings_max_tokens),
                  temperature |-> Or(temperature, settings_temperature)]]

\* schemas.ChatCompletionRequest accepts the request: at least one message,
\* every role one of the three, 0.0 <= temperature <= 2.0,
\* 1 <= max_tokens <= 32768
ChatCompletionRequest(req) ==
    /\ Len(req.messages) >= 1
    /\ \A k \in 1..Len(req.messages) : req.messages[k] \in Roles
    /\ req.temperature # <<>> => (req.temperature[1] >= 0 /\ req.temperature[1] <= 20)
    /\ req.max_tokens # <<>> => (req.max_tokens[1] >= 1 /\ req.max_tokens[1] <= 32768)

\* create_app.chat_completions(request: dict) of src/main.py: the answer and
\* the call made to the MLX client.  A dict the handler returns is answered
\* with status 200.
main_chat_completions(req, outcome) ==
    IF req.messages = <<>>
        THEN [code |-> 200, body |-> "{\"error\":\"No messages provided\"}",
              call |-> NoCall]
        ELSE [code |-> 200,
              body |-> IF outcome.kind = "ok"
                          THEN outcome.text
                          ELSE "{\"error\":\"" \o outcome.text \o "\"}",
              call |-> chat_completion(req.messages, req.max_tokens,
                                       req.temperature)]

-----------------------------------------------------------------------------
Init ==
    /\ process = NoProcess
    /\ current_model = None
    /\ start_time = 0
    /\ restart_attempts = 0
    /\ monitoring = FALSE
    /\ orphans = 0
    /\ task = [t \in Tasks |->
                 IF t = "bg" THEN [IdleTask EXCEPT !.op = "lifespan", !.pc = "init"]
                             ELSE IdleTask]
    /\ exits = 0
    /\ lastBackoff = 0
    /\ respawns = [t \in Tasks |-> 0]
    /\ reply = NoReply
    /\ sent = NoCall
    /\ dismissed = {}

\* The event loop is blocked: a task is inside stop's process.wait.
Blocked == \E u \in Tasks : task[u].pc \in {"wait", "kill_wait"}

\* The tasks suspended in the asyncio.sleep(10) of the monitoring loop.
LoopSleepers == {u \in Tasks : task[u].op = "monitor" /\ task[u].pc = "mon_sleep"}

\* Task t has run one segment that left the supervisor in state r.
Commit(t, r) ==
    /\ task[t].pc \in {"wait", "kill_wait"} \/ ~Blocked
    /\ r.orphans <= MaxOrphans
    /\ process' = r.process
    /\ current_model' = r.current_model
    /\ start_time' = r.start_time
    /\ restart_attempts' = r.restart_attempts
    /\ monitoring' = r.monitoring
    /\ orphans' = r.orphans
    /\ exits' = r.exits
    /\ lastBackoff' = r.lastBackoff
    /\ task' = [task EXCEPT ![t] = r.tk]
    /\ reply' = reply
    /\ sent' = sent
    /\ dismissed' = IF monitoring /\ ~r.monitoring
                        THEN (dismissed \cup LoopSleepers) \ {t}
                        ELSE dismissed \ {t}

\* Requests are served once the application has started, that is after the
\* background task of lifespan has been created and has run its first segment.
Serving(t) == t \in Callers /\ task[t].pc = "idle" /\ task["bg"].pc # "init"

Enter(t, opname) ==
    [St(t) EXCEPT !.tk = [IdleTask EXCEPT !.op = opname, !.pc = "run"]]

\* lifespan: asyncio.create_task(start_mlx_background()) -> engine.start()
LifespanStart ==
    /\ task["bg"].pc = "init"
    /\ Commit("bg", start(St("bg"), None))

\* POST /start?model=
CallStart(t, m) ==
    /\ Serving(t)
    /\ Commit(t, start(Enter(t, "start"), m))

\* POST /stop
CallStop(t) ==
    /\ Serving(t)
    /\ Commit(t, stop_call(Enter(t, "stop")))

\* POST /load
CallSwap(t, m) ==
    /\ Serving(t)
    /\ Commit(t, swap_model(Enter(t, "swap"), m))

ProbeAnswered(t, answer) ==
    /\ task[t].pc = "probe"
    /\ answer.kind = "response" => CanAnswer
    /\ Commit(t, probe_answered(St(t), _is_healthy(answer)))

SleepOver(t) ==
    /\ task[t].pc = "sleep"
    /\ Commit(t, sleep_over(St(t)))

BackoffOver(t) ==
    /\ task[t].pc = "backoff"
    /\ Commit(t, backoff_over(St(t)))

WaitOver(t) ==
    /\ task[t].pc = "wait"
    /\ Commit(t, wait_over(St(t)))

KillWaitOver(t) ==
    /\ task[t].pc = "kill_wait"
    /\ Commit(t, kill_wait_over(St(t)))

DrainOver(t) ==
    /\ task[t].pc = "drain"
    /\ Commit(t, drain_over(St(t)))

MonitorStart ==
    /\ task["bg"].pc = "mon_new"
    /\ Commit("bg", start_monitoring(St("bg")))

MonitorWake ==
    /\ task["bg"].pc = "mon_sleep"
    /\ Commit("bg", monitor_wake(St("bg")))

\* The referenced engine exits on its own or is killed from outside.
ProcessExit ==
    /\ Running(St("bg"))
    /\ process' = [process EXCEPT !.alive = FALSE]
    /\ UNCHANGED <<current_model, start_time, restart_attempts, monitoring,
                   orphans, task, exits, lastBackoff, reply, sent, dismissed>>

\* An engine the supervisor no longer references exits.
OrphanExit ==
    /\ orphans > 0
    /\ orphans' = orphans - 1
    /\ UNCHANGED <<process, current_model, start_time, restart_attempts,
                   monitoring, task, exits, lastBackoff, reply, sent,
                   dismissed>>

\* The application serves requests: lifespan has reached its yield.
AppUp == task["bg"].pc # "init"

\* A handler that reads or proxies answers a request; it runs in one segment
\* for the supervisor, whose state it leaves alone.
Answer(r) ==
    /\ AppUp
    /\ ~Blocked
    /\ reply' = r
    /\ UNCHANGED <<process, current_model, start_time, restart_attempts,
                   monitoring, orphans, task, exits, lastBackoff, sent,
                   dismissed>>

\* GET /status
GetStatus ==
    Answer([endpoint |-> "/status", code |-> 200, body |-> None,
            snap |-> get_status(St("bg"))])

\* GET /health
GetHealth ==
    LET r == health_check(St("bg"))
    IN  Answer([endpoint |-> "/health", code |-> r.code, body |-> r.status,
                snap |-> NoSnap])

\* GET /ready
GetReady ==
    LET r == readiness_check(St("bg"))
    IN  Answer([endpoint |-> "/ready", code |-> r.code, body |-> r.status,
                snap |-> NoSnap])

\* GET /v1/models, the engine answering up; it answers only if it lives
GetModels(up) ==
    /\ up # TransitFailure => CanAnswer
    /\ LET r == list_models(up)
       IN  Answer([endpoint |-> "/v1/models", code |-> r.code, body |-> r.body,
                   snap |-> NoSnap])

\* POST /v1/chat/completions with stream = false
PostChat(up) ==
    /\ up # TransitFailure => CanAnswer
    /\ LET r == chat_completions(up)
       IN  Answer([endpoint |-> "/v1/chat/completions", code |-> r.code,
                   body |-> r.body, snap |-> NoSnap])

\* A health probe is answered with success in this step.
HealthyAnswer ==
    \E u \in Tasks :
        task[u].pc = "probe" /\ task'[u].pc \notin {"probe", "sleep"}

\* The history of respawns: a task respawns when its backoff sleep is over.
\* The count is that of the call in progress and saturates above the budget.
\* It is -1, and stays so until the call is over, once an engine was found
\* healthy during the call.
CountRespawns ==
    respawns' = [t \in Tasks |->
        IF task'[t].pc \in {"init", "idle", "done", "mon_new", "mon_sleep"}
            THEN 0
        ELSE IF HealthyAnswer \/ respawns[t] = -1
            THEN -1
        ELSE IF task[t].pc = "backoff" /\ task'[t] # task[t]
            THEN IF respawns[t] > max_restart_attempts
                    THEN respawns[t] ELSE respawns[t] + 1
        ELSE respawns[t]]

KeepRespawns == UNCHANGED respawns

\* The steps of the program and of its environment.
Next ==
    \/ LifespanStart /\ KeepRespawns
    \/ \E t \in Callers, m \in Models \cup {None} : CallStart(t, m) /\ KeepRespawns
    \/ \E t \in Callers : CallStop(t) /\ KeepRespawns
    \/ \E t \in Callers, m \in Models : CallSwap(t, m) /\ KeepRespawns
    \/ \E t \in Tasks, answer \in ProbeAnswers : ProbeAnswered(t, answer) /\ KeepRespawns
    \/ \E t \in Tasks : SleepOver(t) /\ KeepRespawns
    \/ \E t \in Tasks : BackoffOver(t) /\ KeepRespawns
    \/ \E t \in Callers : WaitOver(t) /\ KeepRespawns
    \/ \E t \in Callers : KillWaitOver(t) /\ KeepRespawns
    \/ \E t \in Tasks : DrainOver(t) /\ KeepRespawns
    \/ MonitorStart /\ KeepRespawns
    \/ MonitorWake /\ KeepRespawns
    \/ ProcessExit /\ KeepRespawns
    \/ OrphanExit /\ KeepRespawns

\* The same steps, with the history of respawns recorded.
NextHist ==
    \/ LifespanStart /\ CountRespawns
    \/ \E t \in Callers, m \in Models \cup {None} : CallStart(t, m) /\ CountRespawns
    \/ \E t \in Callers : CallStop(t) /\ CountRespawns
    \/ \E t \in Callers, m \in Models : CallSwap(t, m) /\ CountRespawns
    \/ \E t \in Tasks, answer \in ProbeAnswers : ProbeAnswered(t, answer) /\ CountRespawns
    \/ \E t \in Tasks : SleepOver(t) /\ CountRespawns
    \/ \E t \in Tasks : BackoffOver(t) /\ CountRespawns
    \/ \E t \in Callers : WaitOver(t) /\ CountRespawns
    \/ \E t \in Callers : KillWaitOver(t) /\ CountRespawns
    \/ \E t \in Tasks : DrainOver(t) /\ CountRespawns
    \/ MonitorStart /\ CountRespawns
    \/ MonitorWake /\ CountRespawns
    \/ ProcessExit /\ CountRespawns
    \/ OrphanExit /\ CountRespawns

Spec == Init /\ [][Next]_vars

SpecHist == Init /\ [][NextHist]_vars

\* Task t is resumed: its sleep is over, or its health probe is answered (the
\* probe's client has a timeout of 5 seconds).
Resume(t) ==
    /\ \/ \E answer \in ProbeAnswers : ProbeAnswered(t, answer)
       \/ SleepOver(t)
       \/ BackoffOver(t)
       \/ WaitOver(t)
       \/ KillWaitOver(t)
       \/ DrainOver(t)
       \/ t = "bg" /\ (LifespanStart \/ MonitorStart \/ MonitorWake)
    /\ KeepRespawns

\* The steps of the program when no request arrives: the background task of
\* lifespan, the monitoring loop and the engine.
NextQuiet ==
    \/ LifespanStart /\ KeepRespawns
    \/ \E answer \in ProbeAnswers : ProbeAnswered("bg", answer) /\ KeepRespawns
    \/ SleepOver("bg") /\ KeepRespawns
    \/ BackoffOver("bg") /\ KeepRespawns
    \/ MonitorStart /\ KeepRespawns
    \/ MonitorWake /\ KeepRespawns
    \/ ProcessExit /\ KeepRespawns

\* The event loop resumes a task whose await has completed.  Nothing makes
\* an engine exit or a probe succeed.
SpecQuiet == Init /\ [][NextQuiet]_vars /\ WF_vars(Resume("bg"))

\* POST /api/v1/chat/completions of the backend application
PostApiChat(req, outcome) ==
    LET r == main_chat_completions(req, outcome)
    IN  /\ reply' = [endpoint |-> "/api/v1/chat/completions", code |-> r.code,
                     body |-> r.body, snap |-> NoSnap]
        /\ sent' = r.call
        /\ UNCHANGED <<process, current_model, start_time, restart_attempts,
                       monitoring, orphans, task, exits, lastBackoff,
                       dismissed>>

\* The steps of the backend application.
NextApi ==
    \E req \in ChatRequests, outcome \in ClientOutcomes :
        PostApiChat(req, outcome) /\ KeepRespawns

SpecApi == Init /\ [][NextApi]_vars

\* The steps of the program when the only requests are reads and proxied
\* calls: the background task, the monitoring loop, the engine, and the
\* handlers that answer.
NextServe ==
    \/ LifespanStart /\ KeepRespawns
    \/ \E answer \in ProbeAnswers : ProbeAnswered("bg", answer) /\ KeepRespawns
    \/ SleepOver("bg") /\ KeepRespawns
    \/ BackoffOver("bg") /\ KeepRespawns
    \/ MonitorStart /\ KeepRespawns
    \/ MonitorWake /\ KeepRespawns
    \/ ProcessExit /\ KeepRespawns
    \/ GetStatus /\ KeepRespawns
    \/ GetHealth /\ KeepRespawns
    \/ GetReady /\ KeepRespawns
    \/ \E up \in Upstream : GetModels(up) /\ KeepRespawns
    \/ \E up \in Upstream : PostChat(up) /\ KeepRespawns

SpecServe == Init /\ [][NextServe]_vars

\* A task is created that runs engine.start_monitoring(), next to the one
\* lifespan creates; it takes the place of a request handler that is idle
\* or of a monitoring task that has ended.
StartMonitoring(t) ==
    /\ t \in Callers
    /\ task[t].pc \in {"idle", "done"}
    /\ task["bg"].pc # "init"
    /\ Commit(t, start_monitoring(
                    [St(t) EXCEPT !.tk = [IdleTask EXCEPT !.op = "monitor",
                                                          !.pc = "mon_new"]]))

\* The monitoring loop run by task t is resumed after asyncio.sleep(10).
LoopWake(t) ==
    /\ t \in Callers
    /\ task[t].op = "monitor" /\ task[t].pc = "mon_sleep"
    /\ Commit(t, monitor_wake(St(t)))

\* engine.stop_monitoring(): a synchronous call, it only clears the flag
StopMonitoring ==
    /\ ~Blocked
    /\ task["bg"].pc # "init"
    /\ monitoring' = FALSE
    /\ dismissed' = IF monitoring THEN dismissed \cup LoopSleepers ELSE dismissed
    /\ UNCHANGED <<process, current_model, start_time, restart_attempts,
                   orphans, task, exits, lastBackoff, reply, sent>>

\* The supervisor under any sequence of start_monitoring, stop_monitoring
\* and stop: the background task of lifespan and its monitoring loop, the
\* engine, and a second task that calls the three methods.
NextMon ==
    \/ LifespanStart /\ KeepRespawns
    \/ \E t \in Tasks, answer \in ProbeAnswers :
          ProbeAnswered(t, answer) /\ KeepRespawns
    \/ \E t \in Tasks : SleepOver(t) /\ KeepRespawns
    \/ \E t \in Tasks : BackoffOver(t) /\ KeepRespawns
    \/ MonitorStart /\ KeepRespawns
    \/ MonitorWake /\ KeepRespawns
    \/ ProcessExit /\ KeepRespawns
    \/ \E t \in Callers : CallStop(t) /\ KeepRespawns
    \/ \E t \in Callers : WaitOver(t) /\ KeepRespawns
    \/ \E t \in Callers : KillWaitOver(t) /\ KeepRespawns
    \/ \E t \in Callers : StartMonitoring(t) /\ KeepRespawns
    \/ \E t \in Callers : LoopWake(t) /\ KeepRespawns
    \/ StopMonitoring /\ KeepRespawns

SpecMon == Init /\ [][NextMon]_vars

-----------------------------------------------------------------------------
(***************************************************************************)
(* Vocabulary of the properties.                                           *)
(***************************************************************************)

\* The engine the supervisor references is alive.
EngineRunning == Running(St("bg"))

\* Engines spawned by the supervisor that are alive, referenced or not.
AliveEngines == orphans + (IF EngineRunning THEN 1 ELSE 0)

\* Task t is suspended inside start, swap_model or crash recovery.
InProgress(t) == task[t].pc \in {"probe", "sleep", "backoff", "drain"}

\* Task t takes a step.
Acts(t) == task'[t] # task[t]

\* Task t, a request handler, runs the first segment of a call of opname.
Calls(t, opname) == task[t].pc = "idle" /\ Acts(t) /\ task'[t].op = opname

\* The operation of task t returns in this step with outcome code.
Returns(t, code) ==
    /\ task[t].pc \notin {"mon_new", "mon_sleep", "done"}
    /\ Acts(t)
    /\ task'[t].pc \in {"idle", "done", "mon_new", "mon_sleep"}
    /\ task'[t].res = code

\* An engine is spawned in this step: the supervisor references a new process.
Spawned ==
    /\ process'.alive
    /\ [process' EXCEPT !.confirmed = FALSE, !.signal = "none"]
            # [process EXCEPT !.confirmed = FALSE, !.signal = "none"]

\* C1: at most one spawned engine is alive, and an alive engine is the one the
\* supervisor references (no alive engine is ever left unreferenced, none is
\* spawned beside an alive one).
C1_SingleEngine == AliveEngines <= 1 /\ orphans = 0

\* C2: no two tasks are at once suspended inside start, swap_model or the
\* restart of crash recovery.
C2_MutualExclusion == Cardinality({t \in Tasks : InProgress(t)}) <= 1

\* The last request served was a stop and no start or swap_model was called since.
StopWasLast ==
    /\ \A c \in Callers : task[c].pc = "idle" /\ task[c].op \in {"none", "stop"}
    /\ \E c \in Callers : task[c].op = "stop"

\* C3: once stop() has returned, and until a caller invokes start or
\* swap_model, no engine runs: a recovery that was waiting in its backoff is
\* cancelled and spawns nothing.
C3_StopCancelsRestart == StopWasLast => AliveEngines = 0

\* C4: when start (called by a request, by swap_model or by lifespan) returns
\* failure, no engine is left running and the status snapshot says stopped.
C4_FailedStartLeavesNothing ==
    [][\A t \in Tasks :
          (/\ task[t].op \in {"start", "swap", "lifespan"}
           /\ (Returns(t, "timeout") \/ Returns(t, "exhausted")))
          => (/\ AliveEngines' = 0
              /\ get_status(St(t))'.status = "stopped")]_vars

\* C5: start(model) called while the referenced engine is alive returns success
\* at once and changes nothing of the supervisor, whatever the model.
C5_StartIdempotent ==
    [][\A t \in Callers :
          (Calls(t, "start") /\ EngineRunning)
          => (/\ task'[t].pc = "idle"
              /\ task'[t].res = "already"
              /\ ResultOf(task'[t].res)
              /\ UNCHANGED <<process, current_model, start_time,
                             restart_attempts, monitoring, orphans>>)]_vars

\* C5 happens: a start has returned early while an engine runs another model
\* than the default one.
C5_Witness ==
    \E t \in Callers :
        /\ task[t].pc = "idle" /\ task[t].op = "start" /\ task[t].res = "already"
        /\ EngineRunning /\ process.model = "model-b"

\* C6: a call of start, or a recovery begun by the monitoring loop, during
\* which no engine becomes healthy respawns at most max_restart_attempts times
\* before it gives up.
C6_BoundedRespawns == \A t \in Tasks : respawns[t] <= max_restart_attempts

\* C7 as claimed: the third consecutive unexpected exit exhausts the budget,
\* so that after it the counter is 0 and no restart is pending.
C7_ThirdExitExhausts ==
    exits = max_restart_attempts
        => (restart_attempts = 0 /\ \A t \in Tasks : task[t].pc # "backoff")

\* Crash recovery is entered in this step: an unexpected exit is observed.
ExitObserved == exits' # exits /\ exits' # 0

\* C7 amended: the budget is exhausted by the fourth consecutive unexpected
\* exit, not the third.  Each of the first three schedules a restart; the
\* recovery that observes the fourth resets the counter to 0, references no
\* process, reports stopped and schedules no restart.
C7_FourthExitExhausts ==
    [][ExitObserved =>
          /\ exits' = IF exits > max_restart_attempts THEN 1 ELSE exits + 1
          /\ IF exits' > max_restart_attempts
                THEN /\ exits' = max_restart_attempts + 1
                     /\ restart_attempts' = 0
                     /\ process' = NoProcess
                     /\ get_status(St("bg"))'.status = "stopped"
                     /\ get_status(St("bg"))'.restart_attempts = 0
                     /\ \A t \in Tasks :
                            Acts(t) => /\ ~InProgress(t)'
                                       /\ task'[t].res = "exhausted"
                ELSE /\ restart_attempts' = exits'
                     /\ \A t \in Tasks : Acts(t) => task'[t].pc = "backoff"]_vars

\* C7 happens: a recovery has given up on the fourth exit.
C7_Witness ==
    /\ exits = max_restart_attempts + 1
    /\ restart_attempts = 0
    /\ \E t \in Tasks : task[t].res = "exhausted"

\* C8: the recovery that schedules the k-th restart of a chain (k is the
\* counter it has just incremented, 1..max_restart_attempts) waits 2^k
\* seconds, which is more than the previous recovery of the chain waited.
C8_ExponentialBackoff ==
    [][\A t \in Tasks :
          (Acts(t) /\ task'[t].pc = "backoff")
          => (/\ restart_attempts' = restart_attempts + 1
              /\ restart_attempts' \in 1..max_restart_attempts
              /\ exits' = restart_attempts'
              /\ task'[t].backoff = 2 ^ restart_attempts'
              /\ task'[t].backoff \in {2, 4, 8}
              /\ task'[t].backoff > lastBackoff)]_vars

\* C8 happens: a third restart in a row waits 8 seconds.
C8_Witness ==
    \E t \in Tasks :
        task[t].pc = "backoff" /\ task[t].backoff = 8 /\ restart_attempts = 3

\* An unexpected exit of the referenced engine is observed by task t, at the
\* head of start's loop or by the monitoring loop.
ObservesExit(t) ==
    /\ task[t].pc \in {"sleep", "mon_sleep"}
    /\ process # NoProcess /\ ~process.alive
    /\ process' = NoProcess

\* C9: the counter changes only in these ways: crash recovery, entered on an
\* observed exit, adds one to it or, beyond the budget, resets it to 0, and a
\* start whose health probe succeeded resets it to 0.  A spawn, and the first
\* segment of any call of start, stop or swap_model, leave it alone.
C9_CounterDiscipline ==
    [][/\ restart_attempts' # restart_attempts =>
            \E t \in Tasks :
               \/ /\ ObservesExit(t)
                  /\ restart_attempts < max_restart_attempts
                  /\ restart_attempts' = restart_attempts + 1
               \/ /\ ObservesExit(t)
                  /\ restart_attempts = max_restart_attempts
                  /\ restart_attempts' = 0
                  /\ task'[t].res = "exhausted" /\ ~InProgress(t)'
               \/ /\ task[t].pc = "probe"
                  /\ Acts(t) /\ ~InProgress(t)'
                  /\ restart_attempts' = 0
       /\ Spawned => UNCHANGED restart_attempts
       /\ \A t \in Callers :
            (task[t].pc = "idle" /\ Acts(t)) => UNCHANGED restart_attempts
      ]_vars

\* C9 happens: the counter is 2 after two observed exits, while a caller's
\* stop has just been served.
C9_Witness ==
    /\ restart_attempts = 2
    /\ \E c \in Callers : task[c].op = "stop" /\ task[c].res = "stopped"

\* The engine of "model-a" has exited while the monitoring loop sleeps, the
\* counter is 0 and no request is being served.
Killed ==
    /\ monitoring
    /\ task["bg"].op = "monitor" /\ task["bg"].pc = "mon_sleep"
    /\ task["bg"].res # "timeout"
    /\ process # NoProcess /\ ~process.alive /\ process.model = "model-a"
    /\ restart_attempts = 0
    /\ \A c \in Callers : task[c].pc = "idle"

\* The monitoring loop's recovery has ended with "model-a" running and healthy.
Recovered ==
    /\ task["bg"].op = "monitor" /\ task["bg"].pc = "mon_sleep"
    /\ task["bg"].res = "healthy"
    /\ EngineRunning /\ process.model = "model-a"
    /\ restart_attempts = 0

\* The respawned engine did not become healthy: it exited during the startup
\* loop, or the loop ran out of probes.
NotHealthy ==
    \/ task["bg"].pc \in {"probe", "sleep"} /\ ~EngineRunning
    \/ task["bg"].res = "timeout"

\* C10: when the engine of "model-a" is killed under an active monitoring
\* loop, the loop's next wake-up observes it, drops the reference and makes the
\* counter 1; and with no request arriving, unless the respawned engine fails
\* to become healthy, eventually "model-a" runs again with the counter back
\* at 0.
C10_MonitorRecovers ==
    /\ [][(Killed /\ Acts("bg"))
            => (/\ restart_attempts' = 1
                /\ process' = NoProcess
                /\ current_model' = "model-a"
                /\ task'["bg"].pc = "backoff")]_vars
    /\ (Killed ~> (Recovered \/ NotHealthy))

\* C10 happens: the monitoring loop has recovered the engine and no caller
\* has ever acted.
C10_Witness ==
    /\ Recovered
    /\ monitoring
    /\ \A c \in Callers : task[c].op = "none"

\* C11: whenever swap_model(B) returns success, the status snapshot taken at
\* that moment reports a running engine, its model is B, and its start time is
\* the spawn time of the process that runs B.
C11_SwapReportsNewModel ==
    [][\A t \in Callers :
          (/\ task[t].op = "swap" /\ InProgress(t)
           /\ (Returns(t, "healthy") \/ Returns(t, "already")))
          => LET snap == get_status(St(t))'
             IN  /\ snap.status = "running" /\ snap.mlx_server_running
                 /\ snap.current_model = task[t].arg
                 /\ process'.model = task[t].arg
                 /\ snap.started = process'.born]_vars

\* The referenced engine is alive and a health probe has confirmed it.
ConfirmedRunning == EngineRunning /\ process.confirmed

\* C12: GET /ready answers 200 exactly in the states where the referenced
\* engine has been confirmed running by a successful health probe, and 503 in
\* every other state; GET /health always answers 200, with "healthy" exactly
\* when the engine is confirmed running and "starting" otherwise.
C12_ReadinessGate ==
    /\ readiness_check(St("bg")).code = IF ConfirmedRunning THEN 200 ELSE 503
    /\ health_check(St("bg")).code = 200
    /\ health_check(St("bg")).status =
            IF ConfirmedRunning THEN "healthy" ELSE "starting"

\* C13: a non-streaming proxied call relays the upstream result unmodified:
\* whenever the engine answered with some status code and body, the caller
\* gets that status code and that body (503 stays 503).
C13_ProxyRelaysUnmodified ==
    [][\A up \in Upstream \ {TransitFailure} :
          (GetModels(up) \/ PostChat(up))
          => (reply'.code = up.code /\ reply'.body = up.body)]_vars

\* stop() runs its last segment: the wait for the process is over.
StopEnds(t) == (WaitOver(t) /\ ~process.alive) \/ KillWaitOver(t)

FailedLast ==
    /\ task["bg"].pc = "done"
    /\ \/ /\ task["bg"].res \in {"timeout", "exhausted"}
          /\ \A c \in Callers : task[c].op = "none"
       \/ \E c \in Callers :
             /\ task[c].pc = "idle" /\ task[c].op \in {"start", "swap"}
             /\ task[c].res \in {"timeout", "exhausted"}

\* C15: a failure is not terminal: the explicit start() that follows a failed
\* start or an exhausted recovery spawns a new engine process and enters the
\* startup loop (it waits for a health probe); it does not return without
\* starting anything.
C15_FailedNotTerminal ==
    [][\A t \in Callers, m \in Models \cup {None} :
          (FailedLast /\ CallStart(t, m))
          => (Spawned /\ task'[t].pc = "probe" /\ ~process'.confirmed)]_vars

\* C16: whatever the engine does and whatever operations interleave, an
\* invocation of start, stop or swap_model that ends, ends by returning a
\* boolean: none ends with an unhandled error; and stop's wait always ends.
C16_ReturnsBoolean ==
    /\ \A t \in Tasks : task[t].res # "error"
    /\ \A t \in Tasks : task[t].pc = "wait" => ENABLED WaitOver(t)
    /\ \A t \in Tasks : task[t].pc = "kill_wait" => ENABLED KillWaitOver(t)

\* A start, stop or swap_model of task t has begun and has not finished.
Busy(t) == InProgress(t) \/ task[t].pc \in {"wait", "kill_wait"}

\* C17: in every state where a start, stop or swap_model has begun and not
\* finished (health polling, wait for the engine's termination, backoff sleep,
\* drain delay), GET /status can be served at once.
C17_StatusNotBlocked == \A t \in Tasks : Busy(t) => ENABLED GetStatus

\* A process is referenced and has not exited.
HasLiveProcess == process # NoProcess /\ process.alive

\* C18: the status snapshot is a pure read.  A step of GET /status, /health or
\* /ready leaves process, model, start time, counter and monitoring flag
\* unchanged, and what it answers is determined by them: running iff a process
\* is referenced and has not exited, the model is current_model, the attempts
\* are the counter; /health and /ready answer from the same running flag.
C18_StatusPureRead ==
        [][/\ (GetStatus \/ GetHealth \/ GetReady)
                => UNCHANGED <<process, current_model, start_time,
                               restart_attempts, monitoring, orphans, task>>
           /\ GetStatus
                => /\ reply'.snap.mlx_server_running = HasLiveProcess
                   /\ reply'.snap.status = IF HasLiveProcess THEN "running" ELSE "stopped"
                   /\ reply'.snap.current_model = current_model
                   /\ reply'.snap.started = start_time
                   /\ reply'.snap.restart_attempts = restart_attempts
           /\ GetHealth
                => /\ reply'.code = 200
                   /\ reply'.body = IF HasLiveProcess THEN "healthy" ELSE "starting"
           /\ GetReady
                => reply'.code = IF HasLiveProcess THEN 200 ELSE 503]_vars

\* C18 happens: a snapshot was taken while the referenced engine had exited
\* and recovery had not yet observed it; another while recovery was waiting
\* in its backoff is covered by the same formula.
C18_Witness ==
    /\ reply.endpoint = "/status"
    /\ reply.snap.status = "stopped" /\ reply.snap.current_model = "model-a"
    /\ process # NoProcess /\ ~process.alive
    /\ reply.snap = get_status(St("bg"))

\* C19: POST /api/v1/chat/completions of src.main.app answers 422, and makes
\* no call to the MLX client, for every request with an empty messages list,
\* a role other than system/user/assistant, a temperature outside [0, 2] or
\* max_tokens below 1; at the bounds (temperature 0 and 2, max_tokens 1) the
\* request is accepted.
C19_ValidationRejects ==
    [][\A req \in ChatRequests, outcome \in ClientOutcomes :
          PostApiChat(req, outcome)
          => IF ChatCompletionRequest(req)
                THEN reply'.code # 422 /\ sent'.called
                ELSE reply'.code = 422 /\ sent' = sent]_vars

\* The body is a JSON object with a field detail.
HasDetail(body) ==
    \E o \in ClientOutcomes : body = "{\"detail\":\"" \o o.text \o "\"}"

\* C20: for a valid request, when the MLX client's chat_completion raises,
\* POST /api/v1/chat/completions answers 500 with a body that has a detail
\* field; when it returns, the endpoint answers 200 with the response of the
\* engine (its id and choices) unchanged.
C20_ClientErrorIs500 ==
    [][\A req \in ChatRequests, outcome \in ClientOutcomes :
          (PostApiChat(req, outcome) /\ ChatCompletionRequest(req))
          => IF outcome.kind = "raise"
                THEN reply'.code = 500 /\ HasDetail(reply'.body)
                ELSE reply'.code = 200 /\ reply'.body = outcome.text]_vars

\* A monitoring loop exists: the task created by lifespan runs (or is about to
\* run) start_monitoring and has not exited.
MonitorLoopExists ==
    task["bg"].op = "monitor" /\ task["bg"].pc # "done"

\* C21: in every state where an engine confirmed healthy is running and no
\* start, stop or swap_model is under way, the monitoring flag is set and a
\* monitoring loop exists (or the loop has just been created and is about to
\* set the flag), whichever start made the engine run: that of lifespan, an
\* explicit one or that of swap_model.
C21_MonitoringAfterStart ==
    (ConfirmedRunning /\ \A t \in Tasks : ~Busy(t))
        => /\ MonitorLoopExists
           /\ monitoring \/ task["bg"].pc = "mon_new"

\* stop() has cleared the reference, the model and the start time, and nothing
\* has been spawned since.
ClearedByStop == process = NoProcess /\ current_model = None /\ start_time = 0

\* C22: a start suspended in its startup loop (on the health probe or on its
\* 1-second sleep) whose process reference a concurrent stop() has cleared
\* does not fail with an unhandled error when it resumes: it goes on or
\* returns a boolean.
C22_StartSurvivesStop ==
    [][\A t \in Tasks :
          (task[t].pc \in {"probe", "sleep"} /\ ClearedByStop /\ Acts(t))
          => (task'[t].res # "error"
              /\ (task'[t].pc \in {"idle", "done"}
                    => task'[t].res \in {"healthy", "already", "timeout", "exhausted"}))]_vars

\* C23: the engine that crash recovery spawns when its backoff sleep is over
\* runs the model of the process whose unexpected exit began that recovery,
\* whatever stop, start or swap_model did during the sleep.
C23_RespawnsLastModel ==
    [][\A t \in Tasks :
          (task[t].pc = "backoff" /\ Acts(t))
          => (process'.alive /\ process'.model = task[t].crashed
              /\ current_model' = task[t].crashed)]_vars

C25_StopOrder ==
    /\ [](process.signal # "none" => ~monitoring /\ Blocked)
    /\ [][/\ (process.signal = "none" /\ process'.signal # "none") =>
               /\ process'.signal = "TERM"
               /\ ~monitoring'
               /\ process'.alive = process.alive
          /\ (process.signal # "KILL" /\ process'.signal = "KILL") =>
               /\ process.signal = "TERM" /\ process.alive
               /\ \E t \in Tasks : WaitOver(t)
          /\ (process.signal = "TERM" /\ ~process.alive
                 /\ \E t \in Tasks : WaitOver(t)) => process' = NoProcess
          /\ (process.signal # "none" /\ process' = NoProcess) =>
               /\ ~process.alive
               /\ \E t \in Tasks : StopEnds(t)
          /\ \A t \in Callers :
               ((CallStop(t) \/ \E m \in Models : CallSwap(t, m))
                  /\ process # NoProcess) => process' # NoProcess]_vars

\* stop() has sent SIGKILL after the grace timeout and waits for the process,
\* which it still references.
C25_Witness ==
    /\ \E t \in Callers : task[t].pc = "kill_wait"
    /\ process # NoProcess /\ process.signal = "KILL" /\ ~process.alive
    /\ ~monitoring

\* The monitoring loop, waking up, finds what makes it recover: the flag set
\* and a referenced process that has exited.
CrashSeen == monitoring /\ process # NoProcess /\ ~process.alive

\* C26: the monitoring loop enters crash recovery at a wake-up exactly when
\* the flag is still set and a referenced process has exited; at any other
\* wake-up, in particular with no process referenced, it changes nothing of
\* the supervisor and schedules no restart.  No task observes an exit while a
\* signal of stop() is outstanding: the process stop() terminates is never
\* handed to crash recovery.
C26_MonitorRecoversOnlyCrash ==
    /\ [][MonitorWake =>
             IF CrashSeen
                THEN /\ process' = NoProcess
                     /\ \/ /\ task'["bg"].pc = "backoff"
                           /\ task'["bg"].crashed = process.model
                           /\ restart_attempts' = restart_attempts + 1
                        \/ /\ task'["bg"].pc = "mon_sleep"
                           /\ task'["bg"].res = "exhausted"
                           /\ restart_attempts' = 0
                ELSE /\ UNCHANGED <<process, current_model, start_time,
                                    restart_attempts, orphans, exits>>
                     /\ task'["bg"].pc \in {"mon_sleep", "done"}]_vars
    /\ [][\A t \in Tasks :
             (Acts(t) /\ (task'[t].pc = "backoff" \/ task'[t].res = "exhausted")
                /\ task[t].pc # "backoff")
                => process.signal = "none" /\ ~Blocked]_vars

\* The monitoring loop has handed a crash to recovery: its task waits in the
\* first backoff with the flag set and no process referenced.
C26_Witness ==
    /\ task["bg"].op = "monitor" /\ task["bg"].pc = "backoff"
    /\ task["bg"].crashed # None
    /\ monitoring /\ process = NoProcess /\ restart_attempts = 1

\* The monitoring loops in progress that the supervisor has not dismissed:
\* tasks inside the loop of start_monitoring, other than those that sleep
\* since before the flag was last cleared.
LiveLoops ==
    {t \in Tasks : /\ task[t].op = "monitor"
                   /\ task[t].pc \in {"mon_sleep", "backoff", "probe", "sleep"}
                   /\ t \notin dismissed}

\* C27: under any sequence of start_monitoring, stop_monitoring and stop, at
\* most one monitoring loop is active; start_monitoring with the flag set
\* starts no loop and changes nothing; and a loop that has slept through a
\* clearing of the flag exits at its next wake-up, also when start_monitoring
\* has set the flag again in between.
C27_SingleMonitorLoop ==
    /\ [](Cardinality(LiveLoops) <= 1)
    /\ [][\A t \in Callers :
             (StartMonitoring(t) /\ monitoring)
                => /\ task'[t].pc = "done"
                   /\ UNCHANGED <<process, current_model, start_time,
                                  restart_attempts, monitoring, orphans>>]_vars
    /\ [][\A t \in Tasks :
             (t \in dismissed /\ Acts(t)) => task'[t].pc = "done"]_vars

\* C28: a status snapshot that reports the engine as stopped shows no engine
\* data: its model is null and its uptime is 0 (no start time is recorded).
\* Stated for the snapshots taken once the supervisor references no process:
\* after stop(), after an observed crash, after an exhausted retry budget.
C28_StoppedShowsNoEngine ==
    [][(GetStatus /\ process = NoProcess /\ reply'.snap.status = "stopped")
          => /\ reply'.snap.current_model = None
             /\ reply'.snap.started = 0]_vars

\* C29: a status snapshot taken while no task is inside start, swap_model,
\* stop or crash recovery reports a restart-attempt count of 0.
C29_QuiescentCountZero ==
    [][(GetStatus /\ \A t \in Tasks : ~Busy(t))
          => reply'.snap.restart_attempts = 0]_vars

\* C30: in every state, that is at every await point, the restart-attempt
\* count lies in 0..max_restart_attempts, and so does the count of every
\* status snapshot; a recovery that finds the budget used up leaves the
\* count at 0 in the step that observes the exit, also when the tasks of two
\* recoveries add to the same counter.
C30_CountWithinBudget ==
    /\ [](restart_attempts \in 0..max_restart_attempts)
    /\ [](get_status(St("bg")).restart_attempts \in 0..max_restart_attempts)
    /\ [][\A t \in Tasks :
             (ObservesExit(t) /\ Acts(t)
                /\ restart_attempts = max_restart_attempts)
                => restart_attempts' = 0]_vars

\* Two recoveries share the counter, which has reached the budget: the
\* background task and a request handler both wait in a backoff.
C30_Witness ==
    /\ task["bg"].pc = "backoff"
    /\ \E t \in Callers : task[t].pc = "backoff"
    /\ restart_attempts = max_restart_attempts

\* The probe got a response with a success status (2xx).
SuccessStatus(answer) ==
    answer.kind = "response" /\ answer.status_code \in 200..299

\* C31: the health probe gives a boolean for every answer: true only for a
\* response with a success status, false for every exception of the client
\* and every other status.  The step of start that takes a false result
\* changes nothing of the supervisor: the counter, the process reference and
\* the rest stay as they are, no crash recovery is entered, and start goes to
\* its 1-second sleep.
C31_ProbeFoldsFailures ==
    /\ [](\A answer \in ProbeAnswers :
             /\ _is_healthy(answer) \in BOOLEAN
             /\ _is_healthy(answer) => SuccessStatus(answer)
             /\ ~SuccessStatus(answer) => ~_is_healthy(answer))
    /\ [][\A t \in Tasks, answer \in ProbeAnswers :
             ProbeAnswered(t, answer) =>
                /\ ~InProgress(t)' => SuccessStatus(answer)
                /\ ~SuccessStatus(answer) =>
                      /\ UNCHANGED <<process, current_model, start_time,
                                     restart_attempts, monitoring, orphans,
                                     exits, lastBackoff>>
                      /\ task'[t] = [task[t] EXCEPT !.pc = "sleep"]]_vars

\* start has taken a false result of the probe during a recovery: it sleeps
\* before the next probe, the engine still referenced and alive, the counter
\* as the recovery left it.
C31_Witness ==
    \E t \in Tasks :
        /\ task[t].pc = "sleep"
        /\ EngineRunning
        /\ restart_attempts = 1

\* The value the caller gave for an optional field, or the configured default
\* when the caller gave none.
GivenOr(value, default) == IF value = <<>> THEN default ELSE value[1]

\* C32: for every request the schema accepts, the temperature and max_tokens
\* of the payload sent to the engine are those of the request, and the
\* configured defaults only where the request has none; this holds for a
\* temperature of 0.0 as well.
C32_PayloadKeepsValues ==
    [][\A req \in ChatRequests, outcome \in ClientOutcomes :
          (PostApiChat(req, outcome) /\ ChatCompletionRequest(req))
             => /\ sent'.called
                /\ sent'.payload.temperature
                      = GivenOr(req.temperature, settings_temperature)
                /\ sent'.payload.max_tokens
                      = GivenOr(req.max_tokens, settings_max_tokens)]_vars

====
